---- MODULE Spec2Model ----
(***************************************************************************)
(* A model of the parser-combinator engine of src/src/main.rs.             *)
(*                                                                         *)
(* A parser is a term (the closure graph the combinators build); applying  *)
(* it is a chain of nested closure calls, modelled as an explicit call     *)
(* stack, one action per step of each closure.  Every returned call is     *)
(* recorded in `log' together with the sub-calls it made (`kids'), so the  *)
(* contract of each combinator can be read off the calls it completed.     *)
(***************************************************************************)
EXTENDS Integers, Sequences, FiniteSets, TLC

VARIABLES
    grammar,   \* the parser `parse' is called on
    input,     \* the source string, as a sequence of characters
    pc,        \* position of Parser::parse: "idle", "running", "done", "panic"
    stack,     \* the closure calls in progress, innermost last
    ret,       \* <<>> or <<r>>: the call that has just returned to stack's top
    reply,     \* <<>> or <<outcome>>: what Parser::parse returned
    log        \* every call that has returned, with the sub-calls it made

vars == <<grammar, input, pc, stack, ret, reply, log>>

(***************************************************************************)
(* Bounds.                                                                 *)
(***************************************************************************)
MaxLen == 3     \* longest enumerated input, in characters
MaxIter == 7    \* most applications of the operand one repeat call may make

(***************************************************************************)
(* Strings.  A &str is a sequence of characters; offsets into it are byte  *)
(* offsets of its UTF-8 encoding.                                          *)
(***************************************************************************)
Utf8Width(c) == IF c = "é" THEN 2 ELSE 1

RECURSIVE ByteLen(_)
ByteLen(s) == IF s = <<>> THEN 0 ELSE Utf8Width(Head(s)) + ByteLen(Tail(s))

CharsCount(s) == Len(s)

\* Is byte offset `position' a character boundary of `source'?
IsCharBoundary(source, position) ==
    \E k \in 0..Len(source) : ByteLen(SubSeq(source, 1, k)) = position

\* &source[position as usize..source.len()]
SliceFrom(source, position) ==
    LET k == CHOOSE k \in 0..Len(source) :
                 ByteLen(SubSeq(source, 1, k)) = position
    IN  SubSeq(source, k + 1, Len(source))

(***************************************************************************)
(* Value, Success, Failure.                                                *)
(***************************************************************************)
ValueNone == [tag |-> "None", text |-> <<>>, items |-> <<>>]
ValueSome(text) == [tag |-> "Some", text |-> text, items |-> <<>>]
ValueList(items) == [tag |-> "List", text |-> <<>>, items |-> items]

Success(position, value) ==
    [ok |-> TRUE, position |-> position, value |-> value, expected |-> <<>>]
Failure(position, expected) ==
    [ok |-> FALSE, position |-> position, value |-> ValueNone,
     expected |-> expected]

(***************************************************************************)
(* The regular expressions the grammars use, by what they match.           *)
(* PrefixLen(pattern, src) is the number of characters of src that         *)
(* "^(pattern)" matches, or -1 when it does not match.                     *)
(***************************************************************************)
Digit == {"0", "1", "2", "3", "4", "5", "6", "7", "8", "9"}

Literals ==
    [p \in {"x", "y", "é", "", "true", "false", "\"", "\\[", ",", "]",
            "\\{", ":", "}"} |->
        CASE p = "x" -> <<"x">>
          [] p = "y" -> <<"y">>
          [] p = "é" -> <<"é">>
          [] p = "" -> <<>>
          [] p = "true" -> <<"t", "r", "u", "e">>
          [] p = "false" -> <<"f", "a", "l", "s", "e">>
          [] p = "\"" -> <<"\"">>
          [] p = "\\[" -> <<"[">>
          [] p = "," -> <<",">>
          [] p = "]" -> <<"]">>
          [] p = "\\{" -> <<"{">>
          [] p = ":" -> <<":">>
          [] p = "}" -> <<"}">>]

IsPrefix(lit, src) ==
    /\ Len(lit) <= Len(src)
    /\ SubSeq(src, 1, Len(lit)) = lit

\* length of the longest prefix of src made of characters of class
RECURSIVE RunLen(_, _)
RunLen(class, src) ==
    IF src = <<>> \/ Head(src) \notin class THEN 0
    ELSE 1 + RunLen(class, Tail(src))

\* "([^\\\\\"]*(\\\\.)?)+": unescaped characters and backslash pairs, up to
\* the first quote
RECURSIVE StringBodyLen(_)
StringBodyLen(src) ==
    IF src = <<>> \/ Head(src) = "\"" THEN 0
    ELSE IF Head(src) = "\\"
         THEN IF Len(src) >= 2 /\ src[2] # "\n"
              THEN 2 + StringBodyLen(SubSeq(src, 3, Len(src)))
              ELSE 0
         ELSE 1 + StringBodyLen(Tail(src))

\* "-?(0|[1-9][0-9]*)"
NumberLen(src) ==
    LET sign == IF src # <<>> /\ Head(src) = "-" THEN 1 ELSE 0
        rest == SubSeq(src, sign + 1, Len(src))
    IN  IF rest = <<>> THEN -1
        ELSE IF Head(rest) = "0" THEN sign + 1
        ELSE IF Head(rest) \in Digit \ {"0"}
             THEN sign + 1 + RunLen(Digit, Tail(rest))
        ELSE -1

PrefixLen(pattern, src) ==
    CASE pattern \in DOMAIN Literals ->
            IF IsPrefix(Literals[pattern], src)
            THEN Len(Literals[pattern]) ELSE -1
      [] pattern = "[0-9]+" ->
            IF RunLen(Digit, src) >= 1 THEN RunLen(Digit, src) ELSE -1
      [] pattern = "([^\\\\\"]*(\\\\.)?)+" -> StringBodyLen(src)
      [] pattern = "-?(0|[1-9][0-9]*)" -> NumberLen(src)

(***************************************************************************)
(* Parser terms: what the constructors of impl Parser build.               *)
(***************************************************************************)
Node(op, pattern, group, builder, sub) ==
    [op |-> op, pattern |-> pattern, group |-> group, builder |-> builder,
     sub |-> sub]

regex(pattern, group) == Node("regex", pattern, group, "", <<>>)
skip(pattern) == regex(pattern, -1)
and(p, q) == Node("and", "", 0, "", <<p, q>>)
or(p, q) == Node("or", "", 0, "", <<p, q>>)
list(p) == Node("list", "", 0, "", <<p>>)
flat(p) == Node("flat", "", 0, "", <<p>>)
repeat(p) == Node("repeat", "", 0, "", <<p>>)
new(builder) == Node("new", "", 0, builder, <<>>)

(***************************************************************************)
(* The grammars of tests::json_ok, and the builders handed to Parser::new. *)
(***************************************************************************)
json_boolean == or(regex("true", 0), regex("false", 0))
json_quot == skip("\"")
json_string ==
    and(and(json_quot, regex("([^\\\\\"]*(\\\\.)?)+", 0)), json_quot)
json_number == regex("-?(0|[1-9][0-9]*)", 0)
json_item == or(or(json_boolean, json_string), json_number)
json_array == new("json_array")
json_object == new("json_object")
json_elements == or(or(json_item, json_array), json_object)

\* the closure p2p applied to root
p2p(builder, root) ==
    CASE builder = "json_array" ->
            and(and(skip("\\["),
                    flat(and(repeat(and(root, skip(","))),
                             or(root, skip(""))))),
                skip("]"))
      [] builder = "json_object" ->
            LET json_pair == and(and(json_string, skip(":")), root)
                json_comma == skip(",")
            IN  and(and(skip("\\{"),
                        and(flat(and(list(json_pair),
                                     repeat(and(json_comma, json_pair)))),
                            or(json_comma, skip("")))),
                    skip("}"))
      \* x, then either the root again or nothing
      [] builder = "nest" -> and(regex("x", 0), or(root, skip("")))
      \* a builder that ignores root
      [] builder = "leaf" -> regex("y", 0)

(***************************************************************************)
(* The bodies of the closures, as functions of what they are given.        *)
(***************************************************************************)
\* Parser::regex, the closure
regex_func(pattern, group, source, position) ==
    LET src == SliceFrom(source, position)
        n == PrefixLen(pattern, src)
        mat == SubSeq(src, 1, n)
    IN  IF n >= 0
        THEN Success(position + ByteLen(mat),
                     IF group < 0 THEN ValueNone ELSE ValueSome(mat))
        ELSE Failure(position, <<pattern>>)

\* and_value with the two pushes in the wrong order
and_value_swapped(value1, value2) ==
    LET v1 == IF value2 # ValueNone THEN <<value2>> ELSE <<>>
        v == IF value1 # ValueNone THEN Append(v1, value1) ELSE v1
    IN  CASE Len(v) = 0 -> ValueNone
          [] Len(v) = 1 -> v[1]
          [] OTHER -> ValueList(v)

\* and_value without the tests against Value::None before the pushes
and_value_unfiltered(value1, value2) ==
    LET v == <<value1, value2>>
    IN  CASE Len(v) = 0 -> ValueNone
          [] Len(v) = 1 -> v[1]
          [] OTHER -> ValueList(v)

\* Parser::and, the value of the success
and_value(value1, value2) ==
    LET v1 == IF value1 # ValueNone THEN <<value1>> ELSE <<>>
        v == IF value2 # ValueNone THEN Append(v1, value2) ELSE v1
    IN  CASE Len(v) = 0 -> ValueNone
          [] Len(v) = 1 -> v[1]
          [] OTHER -> ValueList(v)

\* Parser::list, the value of the success
list_value(value) ==
    IF value # ValueNone THEN ValueList(<<value>>) ELSE value

\* flat_loop flattening every level instead of one
RECURSIVE flat_loop_deep(_)
flat_loop_deep(results) ==
    IF results = <<>> THEN <<>>
    ELSE LET result == Head(results)
         IN  IF result.tag = "List"
             THEN flat_loop_deep(result.items) \o flat_loop_deep(Tail(results))
             ELSE IF result # ValueNone
                  THEN <<result>> \o flat_loop_deep(Tail(results))
                  ELSE flat_loop_deep(Tail(results))

\* Parser::flat, the loop over results
RECURSIVE flat_loop(_)
flat_loop(results) ==
    IF results = <<>> THEN <<>>
    ELSE LET result == Head(results)
         IN  IF result.tag = "List"
             THEN result.items \o flat_loop(Tail(results))
             ELSE IF result # ValueNone
                  THEN <<result>> \o flat_loop(Tail(results))
                  ELSE flat_loop(Tail(results))

\* Parser::flat, the value of the success
flat_value(value) ==
    IF value.tag = "List"
    THEN LET v == flat_loop(value.items)
         IN  IF Len(v) = 0 THEN ValueNone ELSE ValueList(v)
    ELSE value

\* Parser::repeat, one success added to v
repeat_push(v, value) ==
    IF value # ValueNone THEN Append(v, value) ELSE v

\* repeat_break taking the position of the failed attempt
repeat_break_at_failure(i, failure) == failure.position

\* Parser::repeat, the position the loop breaks with
repeat_break(i, failure) == i

\* merge_errs with > for >=: e1 is dropped when the positions are equal
merge_errs_strict(e1, e2) ==
    LET ea == IF e1.position > e2.position THEN e1.expected ELSE <<>>
        eb == IF e1.position <= e2.position THEN e2.expected ELSE <<>>
        pos == IF e1.position <= e2.position THEN e2.position
               ELSE e1.position
    IN  Failure(pos, ea \o eb)

\* Parser::merge_errs
merge_errs(e1, e2) ==
    LET ea == IF e1.position >= e2.position THEN e1.expected ELSE <<>>
        eb == IF e1.position <= e2.position THEN e2.expected ELSE <<>>
        pos == IF e1.position <= e2.position THEN e2.position
               ELSE e1.position
    IN  Failure(pos, ea \o eb)

\* or_retry resuming where the first alternative failed
or_retry_at_failure(i, e1) == e1.position

\* Parser::or, the offset the second alternative is applied at
or_retry(i, e1) == i

\* new_root handing the parser itself to p2p
new_root_self(self, root) == self

\* Parser::new, the root handed to p2p and to the parser it builds
new_root(self, root) == root

\* parse_check without the test for trailing input
parse_check_any_end(outcome, s) == outcome

\* Parser::parse, after the call of self.func has returned
parse_check(outcome, s) ==
    IF ~outcome.ok THEN outcome
    ELSE IF outcome.position < CharsCount(s)
         THEN Failure(outcome.position, <<"no length">>)
         ELSE outcome

(***************************************************************************)
(* The runs: a parser and the input parse is called with.                  *)
(***************************************************************************)
Alphabet == {"x", "y", "é"}

Inputs == UNION {[1..k -> Alphabet] : k \in 0..MaxLen}

Atoms == {regex("x", 0), regex("y", 0), regex("é", 0),
          skip("x"), skip("y"), skip("")}

Level1 ==
    Atoms
    \cup {list(a) : a \in Atoms} \cup {flat(a) : a \in Atoms}
    \cup {repeat(a) : a \in Atoms}
    \cup {and(a, b) : a, b \in Atoms} \cup {or(a, b) : a, b \in Atoms}

sep_by1 == flat(and(regex("x", 0), repeat(and(skip("y"), regex("x", 0)))))

Nested ==
    { and(and(regex("x", 0), skip("y")), regex("é", 0)),
      and(regex("x", 0), and(regex("y", 0), regex("é", 0))),
      and(and(regex("x", 0), regex("y", 0)), regex("é", 0)),
      and(repeat(skip("x")), regex("y", 0)),
      or(and(regex("x", 0), regex("y", 0)), regex("y", 0)),
      or(regex("y", 0), and(regex("x", 0), regex("y", 0))),
      or(and(regex("x", 0), regex("y", 0)), and(regex("x", 0), regex("é", 0))),
      or(or(regex("x", 0), regex("y", 0)), regex("é", 0)),
      or(or(and(regex("x", 0), regex("y", 0)), regex("y", 0)),
         and(regex("x", 0), regex("é", 0))),
      or(repeat(regex("x", 0)), regex("y", 0)),
      flat(repeat(regex("x", 0))),
      flat(repeat(skip("x"))),
      flat(list(list(list(regex("x", 0))))),
      flat(and(list(list(regex("x", 0))), regex("y", 0))),
      and(flat(and(list(list(regex("x", 0))), regex("y", 0))),
          flat(repeat(regex("x", 0)))),
      flat(and(list(regex("x", 0)), repeat(regex("y", 0)))),
      flat(and(repeat(regex("x", 0)), repeat(regex("y", 0)))),
      flat(and(regex("x", 0), regex("y", 0))),
      sep_by1,
      or(sep_by1, skip("")),
      list(and(regex("x", 0), regex("y", 0))),
      list(repeat(regex("x", 0))),
      repeat(and(regex("x", 0), skip("y"))),
      repeat(and(regex("x", 0), regex("y", 0))),
      repeat(or(regex("x", 0), regex("y", 0))),
      repeat(list(regex("x", 0))),
      repeat(repeat(regex("x", 0))),
      repeat(and(skip("x"), skip("y"))) }

Defined ==
    { new("nest"), new("leaf"),
      or(regex("y", 0), new("nest")),
      and(new("nest"), regex("é", 0)),
      repeat(or(new("leaf"), new("nest"))) }

json_inputs ==
    { <<"[", "1", ",", "[", "2", ",", "3", "]", "]">>,
      <<"[", "[", "2", ",", "3", "]", ",", "1", "]">>,
      <<"[", "1", "2", ",", "3", ",", "]">>,
      <<"[", ",", "]">>,
      <<"[", "]">>,
      <<"{", "\"", "a", "\"", ":", "[", "1", "]", ",", "}">> }

Runs ==
    ((Level1 \cup Nested \cup Defined) \X Inputs)
    \cup ({json_elements} \X json_inputs)
    \cup ({json_array} \X {<<"[", "[", "]", ",", "[", "]", "]">>,
                           <<"[", "1", "]">>})
    \cup ({regex("[0-9]+", 0)} \X {<<"1", "2", "a">>, <<"1", "2", "3">>,
                                   <<"a">>})

(***************************************************************************)
(* The call stack.                                                         *)
(***************************************************************************)
\* a closure (parser.func) entered with (root, s, i)
Frame(parser, root, i) ==
    [parser |-> parser, root |-> root, i |-> i, pc |-> "start",
     result1 |-> <<>>, v |-> <<>>, pos |-> i, kids |-> <<>>]

\* what a returned call hands to its caller
Returned(f, out) ==
    [parser |-> f.parser, root |-> f.root, i |-> f.i, out |-> out]

top == stack[Len(stack)]
below == SubSeq(stack, 1, Len(stack) - 1)

Running(op, at) ==
    /\ pc = "running"
    /\ stack # <<>>
    /\ top.parser.op = op
    /\ top.pc = at

\* the top closure, now in state f, calls parser.func(root, s, i)
Call(f, parser, root, i) ==
    /\ stack' = Append(Append(below, f), Frame(parser, root, i))
    /\ ret' = <<>>
    /\ UNCHANGED <<grammar, input, pc, reply, log>>

\* the top closure, having made the calls kids, returns out
Return(kids, out) ==
    /\ stack' = below
    /\ ret' = <<Returned(top, out)>>
    /\ log' = log \cup {[parser |-> top.parser, root |-> top.root,
                         i |-> top.i, out |-> out, kids |-> kids]}
    /\ UNCHANGED <<grammar, input, pc, reply>>

Init ==
    /\ \E run \in Runs : grammar = run[1] /\ input = run[2]
    /\ pc = "idle"
    /\ stack = <<>>
    /\ ret = <<>>
    /\ reply = <<>>
    /\ log = {}

\* Parser::parse, the call (self.func)(self, s, 0)
ParseCall ==
    /\ pc = "idle"
    /\ pc' = "running"
    /\ stack' = <<Frame(grammar, grammar, 0)>>
    /\ UNCHANGED <<grammar, input, ret, reply, log>>

\* Parser::parse, from the return of self.func on
ParseReturn ==
    /\ pc = "running"
    /\ stack = <<>>
    /\ ret # <<>>
    /\ reply' = <<parse_check(ret[1].out, input)>>
    /\ pc' = "done"
    /\ UNCHANGED <<grammar, input, stack, ret, log>>

\* Parser::regex, the closure; slicing off a character boundary panics
RegexApply ==
    /\ Running("regex", "start")
    /\ IF IsCharBoundary(input, top.i)
       THEN Return(<<>>, regex_func(top.parser.pattern, top.parser.group,
                                    input, top.i))
       ELSE /\ pc' = "panic"
            /\ UNCHANGED <<grammar, input, stack, ret, reply, log>>

\* Parser::and: let result1 = (self.func)(root, s, i)
AndCall1 ==
    /\ Running("and", "start")
    /\ Call([top EXCEPT !.pc = "after1"], top.parser.sub[1], top.root, top.i)

\* Parser::and: the ? on result1, then (p.func)(root, s, result1.position)
AndCall2 ==
    /\ Running("and", "after1")
    /\ ret # <<>>
    /\ LET kids == Append(top.kids, ret[1])
       IN  IF ~ret[1].out.ok
           THEN Return(kids, ret[1].out)
           ELSE Call([top EXCEPT !.pc = "after2", !.kids = kids,
                                 !.result1 = <<ret[1].out>>],
                     top.parser.sub[2], top.root, ret[1].out.position)

\* Parser::and: the ? on result2, then the success
AndReturn ==
    /\ Running("and", "after2")
    /\ ret # <<>>
    /\ LET kids == Append(top.kids, ret[1])
           result2 == ret[1].out
       IN  IF ~result2.ok
           THEN Return(kids, result2)
           ELSE Return(kids, Success(result2.position,
                           and_value(top.result1[1].value, result2.value)))

\* Parser::list: let mut result1 = (self.func)(root, s, i)
ListCall ==
    /\ Running("list", "start")
    /\ Call([top EXCEPT !.pc = "after1"], top.parser.sub[1], top.root, top.i)

\* Parser::list: the ? on result1, then the wrapped value
ListReturn ==
    /\ Running("list", "after1")
    /\ ret # <<>>
    /\ LET kids == Append(top.kids, ret[1])
           result1 == ret[1].out
       IN  IF ~result1.ok
           THEN Return(kids, result1)
           ELSE Return(kids, Success(result1.position,
                                     list_value(result1.value)))

\* Parser::flat: let mut result1 = (self.func)(root, s, i)
FlatCall ==
    /\ Running("flat", "start")
    /\ Call([top EXCEPT !.pc = "after1"], top.parser.sub[1], top.root, top.i)

\* Parser::flat: the ? on result1, then the flattened value
FlatReturn ==
    /\ Running("flat", "after1")
    /\ ret # <<>>
    /\ LET kids == Append(top.kids, ret[1])
           result1 == ret[1].out
       IN  IF ~result1.ok
           THEN Return(kids, result1)
           ELSE Return(kids, Success(result1.position,
                                     flat_value(result1.value)))

\* Parser::repeat: the head of the loop, (self.func)(root, s, i)
RepeatCall ==
    /\ Running("repeat", "start")
    /\ Len(top.kids) < MaxIter
    /\ Call([top EXCEPT !.pc = "after1"], top.parser.sub[1], top.root,
            top.pos)

\* Parser::repeat: the match on result; Err breaks, Ok goes round again.
\* An application that repeats the one before it and leaves i and v as they
\* were is recorded once: the loop is then back in the state it was in.
RepeatNext ==
    /\ Running("repeat", "after1")
    /\ ret # <<>>
    /\ LET result == ret[1].out
           again == /\ top.kids # <<>>
                    /\ top.kids[Len(top.kids)] = ret[1]
                    /\ result.ok
                    /\ result.position = top.pos
                    /\ repeat_push(top.v, result.value) = top.v
           kids == IF again THEN top.kids ELSE Append(top.kids, ret[1])
       IN  IF ~result.ok
           THEN Return(kids, Success(repeat_break(top.pos, result),
                                     ValueList(top.v)))
           ELSE /\ stack' = Append(below,
                                   [top EXCEPT !.pc = "start",
                                               !.kids = kids,
                                               !.pos = result.position,
                                               !.v = repeat_push(top.v,
                                                         result.value)])
                /\ ret' = <<>>
                /\ UNCHANGED <<grammar, input, pc, reply, log>>

\* Parser::or: match (self.func)(root, s, i)
OrCall1 ==
    /\ Running("or", "start")
    /\ Call([top EXCEPT !.pc = "after1"], top.parser.sub[1], top.root, top.i)

\* Parser::or: ok => ok, or Err(e1) and the call (p.func)(root, s, i)
OrCall2 ==
    /\ Running("or", "after1")
    /\ ret # <<>>
    /\ LET kids == Append(top.kids, ret[1])
       IN  IF ret[1].out.ok
           THEN Return(kids, ret[1].out)
           ELSE Call([top EXCEPT !.pc = "after2", !.kids = kids,
                                 !.result1 = <<ret[1].out>>],
                     top.parser.sub[2], top.root,
                     or_retry(top.i, ret[1].out))

\* Parser::or: ok => ok, or Err(e2) and the merged failure
OrReturn ==
    /\ Running("or", "after2")
    /\ ret # <<>>
    /\ LET kids == Append(top.kids, ret[1])
       IN  IF ret[1].out.ok
           THEN Return(kids, ret[1].out)
           ELSE Return(kids, merge_errs(top.result1[1], ret[1].out))

\* Parser::new, the closure: (p2p(root).func)(root, source, position)
NewCall ==
    /\ Running("new", "start")
    /\ LET r == new_root(top.parser, top.root)
       IN  Call([top EXCEPT !.pc = "after1"], p2p(top.parser.builder, r),
                r, top.i)

\* Parser::new, the closure returns what the built parser returned
NewReturn ==
    /\ Running("new", "after1")
    /\ ret # <<>>
    /\ Return(Append(top.kids, ret[1]), ret[1].out)

Next ==
    \/ ParseCall
    \/ ParseReturn
    \/ RegexApply
    \/ AndCall1
    \/ AndCall2
    \/ AndReturn
    \/ ListCall
    \/ ListReturn
    \/ FlatCall
    \/ FlatReturn
    \/ RepeatCall
    \/ RepeatNext
    \/ OrCall1
    \/ OrCall2
    \/ OrReturn
    \/ NewCall
    \/ NewReturn

Spec == Init /\ [][Next]_vars

\* a parse is one unbroken chain of calls: the step that can be taken is taken
FairSpec == Spec /\ WF_vars(Next)

(***************************************************************************)
(* Properties.                                                             *)
(***************************************************************************)
Calls(op) == {e \in log : e.parser.op = op}

\* the call e made sub-call number j of parser q at offset at, same root
MadeCall(e, j, q, at) ==
    /\ Len(e.kids) >= j
    /\ e.kids[j].parser = q
    /\ e.kids[j].root = e.root
    /\ e.kids[j].i = at

Leaf(c) == ValueSome(<<c>>)

\* C1: parse returns a Success only when the parser's end position is the
\* length of the input in bytes, the unit the atomic matcher advances by;
\* a success that ends earlier becomes Failure{end position, ["no length"]},
\* and a failure of the parser is returned unchanged.
C1_WholeInputInBytes ==
    pc = "done" =>
        LET outcome == ret[1].out
            r == reply[1]
        IN  /\ ~outcome.ok => r = outcome
            /\ outcome.ok /\ outcome.position = ByteLen(input) => r = outcome
            /\ outcome.ok /\ outcome.position < ByteLen(input) =>
                   r = Failure(outcome.position, <<"no length">>)

\* the value the sequence contract gives two successes
SequenceValue(a, b) ==
    CASE a = ValueNone /\ b = ValueNone -> ValueNone
      [] a = ValueNone /\ b # ValueNone -> b
      [] a # ValueNone /\ b = ValueNone -> a
      [] OTHER -> ValueList(<<a, b>>)

\* C2: and(p, q) at i returns p's failure if p fails at i, else q's failure
\* if q fails at p's end position, else Success at q's end position whose
\* value is Empty, the one non-Empty value, or List[p's value, q's value].
C2_Sequence ==
    \A e \in Calls("and") :
        LET p == e.parser.sub[1]
            q == e.parser.sub[2]
        IN  /\ MadeCall(e, 1, p, e.i)
            /\ IF ~e.kids[1].out.ok
               THEN /\ Len(e.kids) = 1
                    /\ e.out = e.kids[1].out
               ELSE /\ Len(e.kids) = 2
                    /\ MadeCall(e, 2, q, e.kids[1].out.position)
                    /\ IF ~e.kids[2].out.ok
                       THEN e.out = e.kids[2].out
                       ELSE e.out = Success(e.kids[2].out.position,
                                        SequenceValue(e.kids[1].out.value,
                                                      e.kids[2].out.value))

\* a sequence of two successes with two different non-Empty values
C2_Witness ==
    \E e \in Calls("and") :
        /\ Len(e.kids) = 2
        /\ e.kids[2].out.ok
        /\ e.kids[1].out.value # ValueNone
        /\ e.kids[2].out.value # ValueNone
        /\ e.kids[1].out.value # e.kids[2].out.value
        /\ e.out.value.tag = "List"

\* C3: or(p, q) at i returns exactly p's success when p succeeds at i,
\* without applying q; when p fails, q is applied at the same offset i and
\* q's success, if any, is returned as it is.
C3_Choice ==
    \A e \in Calls("or") :
        LET p == e.parser.sub[1]
            q == e.parser.sub[2]
        IN  /\ MadeCall(e, 1, p, e.i)
            /\ IF e.kids[1].out.ok
               THEN /\ Len(e.kids) = 1
                    /\ e.out = e.kids[1].out
               ELSE /\ Len(e.kids) = 2
                    /\ MadeCall(e, 2, q, e.i)
                    /\ e.kids[2].out.ok => e.out = e.kids[2].out

\* p failed beyond the offset it was applied at, and q then succeeded
C3_Witness ==
    \E e \in Calls("or") :
        /\ Len(e.kids) = 2
        /\ ~e.kids[1].out.ok
        /\ e.kids[1].out.position > e.i
        /\ e.kids[2].out.ok
        /\ e.kids[2].out.position > e.i

\* the values of the calls k[1..n], in order
ValuesOf(k, n) == [j \in 1..n |-> k[j].out.value]

NonEmpty(value) == value # ValueNone

\* C4: repeat(p) at i never returns a Failure: it applies p at i and then
\* at each success's end position until p fails, and returns Success at the
\* end position of the last success (i if there was none) with a List,
\* possibly empty, of the non-Empty values of the successes, in order.
C4_Repeat ==
    \A e \in Calls("repeat") :
        LET p == e.parser.sub[1]
            n == Len(e.kids)
        IN  /\ n >= 1
            /\ MadeCall(e, 1, p, e.i)
            /\ \A j \in 1..(n - 1) :
                   /\ e.kids[j].out.ok
                   /\ MadeCall(e, j + 1, p, e.kids[j].out.position)
            /\ ~e.kids[n].out.ok
            /\ e.out.ok
            /\ e.out.position =
                   IF n = 1 THEN e.i ELSE e.kids[n - 1].out.position
            /\ e.out.value.tag = "List"
            /\ e.out.value =
                   ValueList(SelectSeq(ValuesOf(e.kids, n - 1), NonEmpty))

\* a repeat that took a success and then an attempt that failed further on
\* than it started
C4_Witness ==
    \E e \in Calls("repeat") :
        LET n == Len(e.kids)
        IN  /\ n >= 2
            /\ e.kids[n].out.position > e.kids[n].i
            /\ e.out.value.items # <<>>

\* what an element of a List contributes to the flattened List
Contribution(element) ==
    CASE element.tag = "List" -> element.items
      [] element = ValueNone -> <<>>
      [] OTHER -> <<element>>

RECURSIVE Spliced(_)
Spliced(items) ==
    IF items = <<>> THEN <<>>
    ELSE Spliced(SubSeq(items, 1, Len(items) - 1))
             \o Contribution(items[Len(items)])

Flattened(value) ==
    IF value.tag # "List" THEN value
    ELSE IF Spliced(value.items) = <<>> THEN ValueNone
    ELSE ValueList(Spliced(value.items))

\* C5: flat(p) returns p's failure as it is and p's success at the same
\* position; a value that is not a List is kept, a List becomes the List
\* of its elements with the elements of inner Lists spliced in (one level)
\* and Empty dropped, or Empty when nothing is left.
C5_Flatten ==
    \A e \in Calls("flat") :
        /\ Len(e.kids) = 1
        /\ MadeCall(e, 1, e.parser.sub[1], e.i)
        /\ IF ~e.kids[1].out.ok
           THEN e.out = e.kids[1].out
           ELSE e.out = Success(e.kids[1].out.position,
                                Flattened(e.kids[1].out.value))

\* a List two levels down in the operand's value is still a List in the
\* flattened value, and the flatten of a repeat that matched nothing is Empty
C5_Witness ==
    \E e \in Calls("flat") :
        /\ e.out.ok
        /\ e.kids[1].out.value.tag = "List"
        /\ \E j \in 1..Len(e.kids[1].out.value.items) :
               LET inner == e.kids[1].out.value.items[j]
               IN  /\ inner.tag = "List"
                   /\ \E m \in 1..Len(inner.items) :
                          inner.items[m].tag = "List"
        /\ \E j \in 1..Len(e.out.value.items) :
               e.out.value.items[j].tag = "List"
        /\ \E c \in Calls("flat") :
               /\ c.parser.sub[1].op = "repeat"
               /\ c.kids[1].out.value = ValueList(<<>>)
               /\ c.out.value = ValueNone

\* the furthest of two failures
Furthest(ep, eq) ==
    Failure(IF ep.position >= eq.position THEN ep.position ELSE eq.position,
            IF ep.position > eq.position THEN ep.expected
            ELSE IF ep.position < eq.position THEN eq.expected
            ELSE ep.expected \o eq.expected)

\* the returned calls of parser p at offset i
Returns(e, p, i) ==
    {c \in log : c.parser = p /\ c.root = e.root /\ c.i = i}

\* C6: when both alternatives of or(p, q) fail, at a and b, the failure
\* returned is at max(a, b) and expects what p expected if a > b, what q
\* expected if a < b, and p's expectations followed by q's if a = b; in
\* or(or(p, q), r) the failure of or(p, q) is merged with r's in the same way.
C6_FurthestFailure ==
    \A e \in Calls("or") :
        (Len(e.kids) = 2 /\ ~e.kids[2].out.ok) =>
            /\ ~e.kids[1].out.ok
            /\ e.out = Furthest(e.kids[1].out, e.kids[2].out)
            /\ e.parser.sub[1].op = "or" =>
                   \A c \in Returns(e, e.parser.sub[1], e.i) :
                       /\ Len(c.kids) = 2
                       /\ e.out = Furthest(Furthest(c.kids[1].out,
                                                    c.kids[2].out),
                                           e.kids[2].out)

\* three alternatives fail, the first beyond the offset of the choice, and
\* the failure returned names two of them
C6_Witness ==
    \E e \in Calls("or") :
        /\ Len(e.kids) = 2
        /\ ~e.kids[2].out.ok
        /\ e.parser.sub[1].op = "or"
        /\ e.out.position > e.i
        /\ e.kids[1].out.position = e.kids[2].out.position
        /\ Len(e.out.expected) = 2
        /\ \E c \in Returns(e, e.parser.sub[1], e.i) :
               c.kids[1].out.position > c.kids[2].out.position

RECURSIVE NoEmptyElement(_)
NoEmptyElement(value) ==
    value.tag = "List" =>
        \A j \in 1..Len(value.items) :
            /\ value.items[j] # ValueNone
            /\ NoEmptyElement(value.items[j])

\* C7: no List in the value of any success, whether returned by and, by
\* flat or by a parser built on them, has Empty as an element.
C7_NoEmptyInLists ==
    /\ \A e \in log : e.out.ok => NoEmptyElement(e.out.value)
    /\ \A j \in 1..Len(reply) : reply[j].ok => NoEmptyElement(reply[j].value)

\* a sequence dropped an Empty value and its value went into the List of
\* the sequence around it
C7_Witness ==
    \E e \in Calls("and") :
        /\ Len(e.kids) = 2
        /\ e.kids[2].out.ok
        /\ e.out.value.tag = "List"
        /\ \E c \in Returns(e, e.parser.sub[1], e.i) :
               /\ c.parser.op = "and"
               /\ Len(c.kids) = 2
               /\ c.kids[2].out.ok
               /\ c.kids[2].out.value = ValueNone
               /\ c.out.value = e.out.value.items[1]

DigitsRun == grammar = regex("[0-9]+", 0) /\ input = <<"1", "2", "a">>

\* C8 as stated: parse of matchPattern("[0-9]+", 0) on "12a" is a Failure
\* at position 2 that expects the pattern "[0-9]+".
C8_AsStated ==
    DigitsRun /\ pc = "done" => reply = <<Failure(2, <<"[0-9]+">>)>>

\* C8: parse of matchPattern("[0-9]+", 0) on "12a" is a Failure at position
\* 2, where the match stopped, that expects "no length": the matcher itself
\* succeeds with Leaf("12") at 2 and parse rejects the input left over.
C8_AtomicMismatch ==
    DigitsRun /\ pc = "done" =>
        /\ ret[1].out = Success(2, ValueSome(<<"1", "2">>))
        /\ reply = <<Failure(2, <<"no length">>)>>

\* parse has returned on "12a"
C8_Witness == DigitsRun /\ pc = "done" /\ ~reply[1].ok

ArrayRun ==
    /\ grammar = json_elements
    /\ input = <<"[", "1", ",", "[", "2", ",", "3", "]", "]">>

\* C9: the array grammar of tests::json_ok parses "[1,[2,3]]" to
\* List[Leaf("1"), List[Leaf("2"), Leaf("3")]]: the inner array stays a List
\* inside the outer one.
C9_NestedArray ==
    ArrayRun /\ pc = "done" =>
        reply = <<Success(9, ValueList(<<Leaf("1"),
                                 ValueList(<<Leaf("2"), Leaf("3")>>)>>))>>

\* C10 as stated: every call of a parser d made by Parser::new hands d
\* itself to the builder, applies the parser built at the same offset and
\* returns its outcome.
C10_AsStated ==
    \A e \in Calls("new") :
        /\ Len(e.kids) = 1
        /\ e.kids[1].parser = p2p(e.parser.builder, e.parser)
        /\ e.kids[1].i = e.i
        /\ e.out = e.kids[1].out

\* C10: every call of a parser d made by Parser::new hands the builder the
\* root of the call, which is the parser parse was called on (d itself only
\* when parse is called on d), applies the parser built at the same offset
\* with the same root and returns its outcome.
C10_Define ==
    \A e \in Calls("new") :
        /\ e.root = grammar
        /\ Len(e.kids) = 1
        /\ MadeCall(e, 1, p2p(e.parser.builder, grammar), e.i)
        /\ e.out = e.kids[1].out

\* a parser made by Parser::new returned a success inside a larger parser,
\* and its builder makes another parser of the root than of the parser itself
C10_Witness ==
    \E e \in Calls("new") :
        /\ e.parser # grammar
        /\ p2p(e.parser.builder, grammar) # p2p(e.parser.builder, e.parser)
        /\ e.out.ok
        /\ e.out.position > e.i

RECURSIVE UsesNew(_)
UsesNew(parser) ==
    \/ parser.op = "new"
    \/ \E j \in 1..Len(parser.sub) : UsesNew(parser.sub[j])

\* C11: parse of a parser built without Parser::new eventually returns an
\* outcome on every input; the loop of repeat ends whatever its operand.
C11_Terminates == <>(UsesNew(grammar) \/ pc = "done")

====
